---- MODULE Spec2Model ----
(***************************************************************************)
(* The read API of the open-threads dashboard (package handlers):          *)
(* GetDashboardStats, GetThreads, GetChannels and GetUserProfiles over a   *)
(* store made of the channels catalog, one thread table per channel and    *)
(* the user_profiles table.  The store is written by external pipelines    *)
(* only; they appear here as the writer actions.  Every handler is one     *)
(* action: it reads the store and produces one HTTP response.              *)
(***************************************************************************)
EXTENDS Integers, Sequences, FiniteSets, TLC

VARIABLES
    catalog,    \* the channels table, in the store's scan order
    exists,     \* the table names for which a per-channel table exists
    tables,     \* table name -> its thread rows, in the store's scan order
    profiles,   \* the user_profiles table, in the store's scan order
    request,    \* the last request handled (parameters and injected faults)
    response,   \* the response the handler gave to it
    queries,    \* the statements the handler sent to the store for it, in order
    events,     \* the connection and cursors it opened and closed, in order
    run,        \* a handler invocation observed query by query
    view        \* the ChannelThreads component of the dashboard UI

vars == <<catalog, exists, tables, profiles, request, response, queries, events, run, view>>

store == <<catalog, exists, tables, profiles>>

\* what the atomic handlers and the writers never touch
aside == <<run, view>>

(***************************************************************************)
(* Bounds of the model.                                                    *)
(***************************************************************************)
\* rows the writers hold in all thread tables together
MaxRows == 2
\* latest_reply ranges over 1..MaxTime
MaxTime == 2
\* queries that fail transiently within one request
MaxFaults == 1
\* length of an ai_stakeholders text drawn character by character
MaxTextLen == 4
\* ids in a stakeholder list
MaxIds == 2
\* /api/threads fetches the component issues
MaxFetches == 3
\* length of the user_ids parameter, in characters
MaxIdsLen == 4
\* rows of user_profiles
MaxProfiles == 2
\* a loaded thread table holds up to DefaultLimit + MaxOver rows
MaxOver == 1

(***************************************************************************)
(* Program constants.                                                      *)
(***************************************************************************)
DefaultLimit == 10
StatusOK == 200
StatusBadRequest == 400
StatusInternalServerError == 500

\* SQL NULL in a nullable column, nil in a Go pointer field
NULL == "NULL"

(***************************************************************************)
(* Generic helpers on sequences.                                           *)
(***************************************************************************)
Range(s) == {s[i] : i \in 1..Len(s)}

Min(a, b) == IF a <= b THEN a ELSE b

\* s[:n] of Go for 0 <= n
Take(s, n) == SubSeq(s, 1, Min(n, Len(s)))

RECURSIVE SumOver(_, _)
SumOver(S, f) ==
    IF S = {} THEN 0
    ELSE LET x == CHOOSE y \in S : TRUE IN f[x] + SumOver(S \ {x}, f)

(***************************************************************************)
(* The store.                                                              *)
(***************************************************************************)
\* The channels the ingestion pipeline may track (channel_id, channel_name,
\* table_name; table_name is unique per channel).
Channels ==
    { [channel_id |-> "C1", channel_name |-> "docs", table_name |-> "docs_threads"],
      [channel_id |-> "C2", channel_name |-> "eng",  table_name |-> "eng_threads"] }

TableNames == {c.table_name : c \in Channels}

Times == 1..MaxTime

\* The columns of a per-channel table the handlers read or filter on.  The
\* columns decoded into Go pointer fields accept NULL; ai_stakeholders is
\* decoded into a plain string.
MkRow(ts, cid, in) ==
    [thread_ts |-> ts, channel_id |-> cid, latest_reply |-> in.latest_reply,
     status |-> in.status, ai_thread_name |-> in.ai_thread_name,
     ai_stakeholders |-> in.ai_stakeholders, ai_priority |-> in.ai_priority]

\* what a writer chooses for a new row
ThreadInputs ==
    [latest_reply : Times, status : {"open"}, ai_thread_name : {NULL},
     ai_stakeholders : {NULL, "U1"}, ai_priority : {NULL, "high", "low"}]

StatsInputs ==
    [latest_reply : {1}, status : {"open", "closed"}, ai_thread_name : {NULL, "topic"},
     ai_stakeholders : {"U1"}, ai_priority : {NULL}]

TotalRows == SumOver(TableNames, [t \in TableNames |-> Len(tables[t])])

(***************************************************************************)
(* Requests and responses.  A request carries the query parameters as echo *)
(* hands them to the handler (QueryParam gives "" for an absent one) and   *)
(* the queries that fail in the store while it is served.                  *)
(***************************************************************************)
Fault(at, table) == [at |-> at, table |-> table]

ConnFault == Fault("connect", "")

\* a Go slice: nil, or a (possibly empty) array
NilSlice == [nil |-> TRUE, items |-> <<>>]

EmptySlice == [nil |-> FALSE, items |-> <<>>]

AppendSlice(s, x) == [nil |-> FALSE, items |-> Append(s.items, x)]

NoStats == [totalThreads |-> 0, activeThreads |-> 0, channels |-> 0, aiAnalyzed |-> 0]

NoRequest ==
    [op |-> "none", limit |-> <<>>, channel |-> "", priority |-> "",
     user_ids |-> <<>>, faults |-> {}]

NoResponse ==
    [status |-> 0, kind |-> "none", error |-> "", null |-> FALSE, items |-> <<>>,
     stats |-> NoStats]

\* ctx.JSON(status, map[string]string{"error": msg})
JSONError(status, msg) ==
    [status |-> status, kind |-> "error", error |-> msg, null |-> FALSE,
     items |-> <<>>, stats |-> NoStats]

\* ctx.JSON(status, slice): encoding/json writes null for a nil slice
JSONArray(status, slice) ==
    [status |-> status, kind |-> "array", error |-> "", null |-> slice.nil,
     items |-> slice.items, stats |-> NoStats]

\* ctx.JSON(status, stats)
JSONStats(status, st) ==
    [status |-> status, kind |-> "object", error |-> "", null |-> FALSE,
     items |-> <<>>, stats |-> st]

(***************************************************************************)
(* Statements sent to the store.  The text of a statement is the sequence  *)
(* of the pieces it is concatenated from, each with the origin of its      *)
(* value: a literal of the program, a value read from the channels table   *)
(* ("catalog"), a counter of the program, or a request parameter.  args    *)
(* are the values bound to the placeholders.                               *)
(***************************************************************************)
Literal(sql) == [sql |-> sql, n |-> 0, from |-> "literal"]

\* a value put into the text by fmt.Sprintf("... %s ...", value)
Formatted(value, from) == [sql |-> value, n |-> 0, from |-> from]

\* fmt.Sprintf("$%d", n)
Placeholder(n) == [sql |-> "$", n |-> n, from |-> "counter"]

Statement(text, args) == [text |-> text, args |-> args]

(***************************************************************************)
(* The resources of an invocation: the *sql.DB of getDBConnection and the  *)
(* *sql.Rows of each db.Query.  (db.QueryRow(...).Scan closes its own      *)
(* cursor.)                                                                *)
(***************************************************************************)
Acquire(res) == [ev |-> "open", res |-> res]

Release(res) == [ev |-> "close", res |-> res]

\* getDBConnection fails at db.Ping(), after sql.Open succeeded
PingFault == Fault("ping", "")

\* a failed ping is a failed connection
PingFaultSet == {ConnFault, PingFault}

\* the failed ping returning without db.Close()
ConnEventsPingLeak(faults) ==
    IF PingFault \in faults THEN <<Acquire("db")>>
    ELSE IF ConnFault \in faults THEN <<>>
    ELSE <<Acquire("db")>>

\* getDBConnection: sql.Open, db.Ping, db.Close() when the ping fails
ConnEvents(faults) ==
    IF PingFault \in faults THEN <<Acquire("db"), Release("db")>>
    ELSE IF ConnFault \in faults THEN <<>>
    ELSE <<Acquire("db")>>

\* no invocation is observed query by query
NoRun ==
    [op |-> "none", phase |-> "idle", cat |-> <<>>, i |-> 0,
     stats |-> [totalThreads |-> 0, activeThreads |-> 0, channels |-> 0, aiAnalyzed |-> 0],
     summed |-> 0, acc |-> <<>>, slow |-> {}]

(***************************************************************************)
(* The external writers (ingestion and classification pipelines).  A write *)
(* happens between two observed requests.                                   *)
(***************************************************************************)
\* no request is under observation
Idle == request.op = "none"

\* the last request and its traces are dropped
Forget ==
    /\ request' = NoRequest
    /\ response' = NoResponse
    /\ queries' = <<>>
    /\ events' = <<>>
    /\ UNCHANGED aside

\* the response has reached the client; the next request may be observed
Deliver ==
    /\ ~Idle
    /\ Forget
    /\ UNCHANGED store

\* channel_id is the identity of a catalog row
AddChannel(ch, withTable) ==
    /\ Idle
    /\ \A i \in 1..Len(catalog) : catalog[i].channel_id # ch.channel_id
    /\ catalog' = Append(catalog, ch)
    /\ exists' = IF withTable THEN exists \cup {ch.table_name} ELSE exists
    /\ Forget
    /\ UNCHANGED <<tables, profiles>>

\* channel_name is a mutable label
RenameChannel(i, name) ==
    /\ Idle
    /\ i \in 1..Len(catalog)
    /\ catalog[i].channel_name # name
    /\ catalog' = [catalog EXCEPT ![i].channel_name = name]
    /\ Forget
    /\ UNCHANGED <<exists, tables, profiles>>

CreateTable(ch) ==
    /\ Idle
    /\ ch \in Range(catalog)
    /\ ch.table_name \notin exists
    /\ exists' = exists \cup {ch.table_name}
    /\ Forget
    /\ UNCHANGED <<catalog, tables, profiles>>

DropTable(ch) ==
    /\ Idle
    /\ ch.table_name \in exists
    /\ exists' = exists \ {ch.table_name}
    /\ tables' = [tables EXCEPT ![ch.table_name] = <<>>]
    /\ Forget
    /\ UNCHANGED <<catalog, profiles>>

InsertRow(ch, in) ==
    /\ Idle
    /\ ch \in Range(catalog)
    /\ ch.table_name \in exists
    /\ TotalRows < MaxRows
    /\ tables' = [tables EXCEPT ![ch.table_name] =
                      Append(@, MkRow(Len(@) + 1, ch.channel_id, in))]
    /\ Forget
    /\ UNCHANGED <<catalog, exists, profiles>>

\* the channel_id values a stored row may carry: those of the channels and
\* one that no catalog entry has
StoredChannelIds == {c.channel_id : c \in Channels} \cup {"C0"}

\* a writer stores a row under a channel_id that is not its table's
InsertForeignRow(ch, cid, in) ==
    /\ Idle
    /\ ch \in Range(catalog)
    /\ ch.table_name \in exists
    /\ cid # ch.channel_id
    /\ TotalRows < MaxRows
    /\ tables' = [tables EXCEPT ![ch.table_name] = Append(@, MkRow(Len(@) + 1, cid, in))]
    /\ Forget
    /\ UNCHANGED <<catalog, exists, profiles>>

(***************************************************************************)
(* strconv.Atoi on the characters of a parameter.                          *)
(***************************************************************************)
DigitChars == <<"0", "1", "2", "3", "4", "5", "6", "7", "8", "9">>

IsDigit(c) == \E i \in 1..Len(DigitChars) : DigitChars[i] = c

DigitValue(c) == (CHOOSE i \in 1..Len(DigitChars) : DigitChars[i] = c) - 1

RECURSIVE DigitsValue(_)
DigitsValue(ds) ==
    IF ds = <<>> THEN 0
    ELSE DigitsValue(SubSeq(ds, 1, Len(ds) - 1)) * Len(DigitChars) + DigitValue(ds[Len(ds)])

\* an optional sign, then one or more decimal digits; anything else is an error
Atoi(s) ==
    LET signed == s # <<>> /\ s[1] \in {"+", "-"}
        ds     == IF signed THEN Tail(s) ELSE s
    IN  IF ds = <<>> \/ \E i \in 1..Len(ds) : ~IsDigit(ds[i])
        THEN [ok |-> FALSE, val |-> 0]
        ELSE [ok |-> TRUE,
              val |-> IF signed /\ s[1] = "-" THEN 0 - DigitsValue(ds) ELSE DigitsValue(ds)]

(***************************************************************************)
(* GetThreads.                                                             *)
(***************************************************************************)
\* the test parsedLimit > 0 left out
ParseLimitAnySign(limitStr) ==
    IF limitStr # <<>> /\ Atoi(limitStr).ok THEN Atoi(limitStr).val ELSE DefaultLimit

\* limit := 10; if limitStr != "" { if parsed, err := Atoi; err == nil && parsed > 0 ... }
ParseLimit(limitStr) ==
    IF limitStr # <<>> /\ Atoi(limitStr).ok /\ Atoi(limitStr).val > 0
    THEN Atoi(limitStr).val
    ELSE DefaultLimit

\* the priority condition left out of the query
WhereMatchesUnfiltered(row, priority) == TRUE

\* WHERE 1=1 [AND ai_priority = $n]: a comparison with NULL is not true
WhereMatches(row, priority) ==
    priority = "" \/ (row.ai_priority # NULL /\ row.ai_priority = priority)

Where(rows, priority) == SelectSeq(rows, LAMBDA r : WhereMatches(r, priority))

\* ORDER BY latest_reply DESC; rows of equal latest_reply stay in scan order
RECURSIVE InsertDesc(_, _)
InsertDesc(sorted, r) ==
    IF sorted = <<>> THEN <<r>>
    ELSE IF Head(sorted).latest_reply >= r.latest_reply
         THEN <<Head(sorted)>> \o InsertDesc(Tail(sorted), r)
         ELSE <<r>> \o sorted

RECURSIVE OrderByLatestReplyDesc(_)
OrderByLatestReplyDesc(rows) ==
    IF rows = <<>> THEN <<>>
    ELSE InsertDesc(OrderByLatestReplyDesc(SubSeq(rows, 1, Len(rows) - 1)), rows[Len(rows)])

\* if limit > 0 { LIMIT $n }
ApplyLimit(rows, limit) == IF limit > 0 THEN Take(rows, limit) ELSE rows

\* threadRows.Scan: NULL cannot be stored into the string field AIStakeholders
ScanOk(row) == row.ai_stakeholders # NULL

\* the else branch left out: Priority keeps the zero value of a Go string
DerivePriorityUnset(aiPriority) == IF aiPriority # NULL THEN aiPriority ELSE ""

\* if thread.AIPriority != nil { Priority = *AIPriority } else { Priority = "none" }
DerivePriority(aiPriority) == IF aiPriority # NULL THEN aiPriority ELSE "none"

\* the Thread the loop body appends for a decoded row
ScanThread(row, channelName) ==
    [thread_ts |-> row.thread_ts, channel_id |-> row.channel_id,
     channel_name |-> channelName, latest_reply |-> row.latest_reply,
     status |-> row.status, ai_thread_name |-> row.ai_thread_name,
     ai_stakeholders |-> row.ai_stakeholders, ai_priority |-> row.ai_priority,
     priority |-> DerivePriority(row.ai_priority)]

\* for threadRows.Next(): a row that fails to scan is skipped
\* the scan of a table left at the first row that fails to decode
RECURSIVE ScanRowsUntilError(_, _, _)
ScanRowsUntilError(acc, rows, channelName) ==
    IF rows = <<>> \/ ~ScanOk(Head(rows)) THEN acc
    ELSE ScanRowsUntilError(AppendSlice(acc, ScanThread(Head(rows), channelName)),
                            Tail(rows), channelName)

\* for threadRows.Next() { ...; if err == nil { allThreads = append(...) } }
RECURSIVE ScanRows(_, _, _)
ScanRows(acc, rows, channelName) ==
    IF rows = <<>> THEN acc
    ELSE ScanRows(IF ScanOk(Head(rows))
                  THEN AppendSlice(acc, ScanThread(Head(rows), channelName))
                  ELSE acc,
                  Tail(rows), channelName)

\* db.Query on one channel's table: an error when the table is missing or the
\* store fails the query
QueryFails(kind, ch, faults) ==
    ch.table_name \notin exists \/ Fault(kind, ch.table_name) \in faults

\* the channel filter left out
SkippedNever(ch, channel) == FALSE

\* if channel != "" && channelName != channel { continue }
Skipped(ch, channel) == channel # "" /\ ch.channel_name # channel

\* db.Query("SELECT channel_id, channel_name, table_name FROM channels")
CatalogQuery ==
    Statement(<<Literal("SELECT channel_id, channel_name, table_name FROM channels")>>, <<>>)

\* the priority put into the statement text
ThreadsQueryInlined(tableName, priority, limit) ==
    Statement(
        <<Literal("SELECT ... FROM "), Formatted(tableName, "catalog"),
          Literal(" WHERE 1=1")>>
        \o (IF priority # ""
            THEN <<Literal(" AND ai_priority = "), Formatted(priority, "request")>>
            ELSE <<>>)
        \o <<Literal(" ORDER BY latest_reply DESC")>>
        \o (IF limit > 0 THEN <<Literal(" LIMIT "), Placeholder(1)>> ELSE <<>>),
        IF limit > 0 THEN <<limit>> ELSE <<>>)

\* query and args as built for one channel's table
ThreadsQuery(tableName, priority, limit) ==
    Statement(
        <<Literal("SELECT ... FROM "), Formatted(tableName, "catalog"),
          Literal(" WHERE 1=1")>>
        \o (IF priority # ""
            THEN <<Literal(" AND ai_priority = "), Placeholder(1)>>
            ELSE <<>>)
        \o <<Literal(" ORDER BY latest_reply DESC")>>
        \o (IF limit > 0
            THEN <<Literal(" LIMIT "), Placeholder(IF priority # "" THEN 2 ELSE 1)>>
            ELSE <<>>),
        (IF priority # "" THEN <<priority>> ELSE <<>>)
        \o (IF limit > 0 THEN <<limit>> ELSE <<>>))

\* the statements of the loop over channelRows, one per channel not skipped
ThreadsQueries(cat, channel, priority, limit) ==
    LET asked == SelectSeq(cat, LAMBDA ch : ~Skipped(ch, channel))
    IN  [i \in 1..Len(asked) |-> ThreadsQuery(asked[i].table_name, priority, limit)]

\* one iteration of the loop over channelRows
ThreadsStep(acc, ch, channel, priority, limit, faults) ==
    IF Skipped(ch, channel) THEN acc
    ELSE IF QueryFails("threads", ch, faults) THEN acc
    ELSE ScanRows(acc,
                  ApplyLimit(OrderByLatestReplyDesc(Where(tables[ch.table_name], priority)),
                             limit),
                  ch.channel_name)

\* the loop left at the first failing query (break for continue)
RECURSIVE CollectThreadsUntilError(_, _, _, _, _, _)
CollectThreadsUntilError(acc, cat, channel, priority, limit, faults) ==
    IF cat = <<>> THEN acc
    ELSE IF ~Skipped(Head(cat), channel) /\ QueryFails("threads", Head(cat), faults)
    THEN acc
    ELSE CollectThreadsUntilError(
             ThreadsStep(acc, Head(cat), channel, priority, limit, faults),
             Tail(cat), channel, priority, limit, faults)

\* for channelRows.Next() { ... }
RECURSIVE CollectThreads(_, _, _, _, _, _)
CollectThreads(acc, cat, channel, priority, limit, faults) ==
    IF cat = <<>> THEN acc
    ELSE CollectThreads(ThreadsStep(acc, Head(cat), channel, priority, limit, faults),
                        Tail(cat), channel, priority, limit, faults)

\* the global cap left out
TruncateNever(slice, limit) == slice

\* if len(allThreads) > limit { allThreads = allThreads[:limit] }
Truncate(slice, limit) ==
    IF Len(slice.items) > limit
    THEN [nil |-> slice.nil, items |-> Take(slice.items, limit)]
    ELSE slice

\* var allThreads []Thread
InitialThreadsNil == NilSlice

\* allThreads := []Thread{}
InitialThreads == EmptySlice

ThreadsResponse(limitStr, channel, priority, faults) ==
    IF ConnFault \in faults
    THEN JSONError(StatusInternalServerError, "Database connection failed")
    ELSE IF Fault("catalog", "") \in faults
    THEN JSONError(StatusInternalServerError, "Failed to get channels")
    ELSE JSONArray(StatusOK,
             Truncate(CollectThreads(InitialThreads, catalog, channel, priority,
                                     ParseLimit(limitStr), faults),
                      ParseLimit(limitStr)))

\* threadRows of each channel whose statement succeeds: opened by db.Query,
\* closed by threadRows.Close() after its scan
RECURSIVE ThreadRowsEvents(_, _, _)
ThreadRowsEvents(cat, channel, faults) ==
    IF cat = <<>> THEN <<>>
    ELSE (IF Skipped(Head(cat), channel) \/ QueryFails("threads", Head(cat), faults)
          THEN <<>>
          ELSE <<Acquire(Head(cat).table_name), Release(Head(cat).table_name)>>)
         \o ThreadRowsEvents(Tail(cat), channel, faults)

\* the resources of GetThreads; the deferred Close calls run at the return,
\* last deferred first
ThreadsEvents(channel, faults) ==
    IF ConnFault \in faults THEN ConnEvents(faults)
    ELSE ConnEvents(faults)
         \o (IF Fault("catalog", "") \in faults THEN <<>>
             ELSE <<Acquire("channelRows")>>
                  \o ThreadRowsEvents(catalog, channel, faults)
                  \o <<Release("channelRows")>>)
         \o <<Release("db")>>

\* everything GetThreads sends to the store
ThreadsStatements(limitStr, channel, priority, faults) ==
    IF ConnFault \in faults THEN <<>>
    ELSE IF Fault("catalog", "") \in faults THEN <<CatalogQuery>>
    ELSE <<CatalogQuery>>
         \o ThreadsQueries(catalog, channel, priority, ParseLimit(limitStr))

\* The connection fails, or the catalog query fails, or neither; a failing
\* query on a channel's table is a table that does not exist.
ThreadsFaultSets == {{}, {ConnFault}, {Fault("catalog", "")}}

\* the query on one channel's table fails although the table exists
ThreadsTableFaultSets == {{Fault("threads", t)} : t \in TableNames}

GetThreads(limitStr, channel, priority, faults) ==
    /\ Idle
    /\ request' = [op |-> "threads", limit |-> limitStr, channel |-> channel,
                   priority |-> priority, user_ids |-> <<>>, faults |-> faults]
    /\ response' = ThreadsResponse(limitStr, channel, priority, faults)
    /\ queries' = ThreadsStatements(limitStr, channel, priority, faults)
    /\ events' = ThreadsEvents(channel, faults)
    /\ UNCHANGED aside
    /\ UNCHANGED store

(***************************************************************************)
(* GetDashboardStats.                                                      *)
(***************************************************************************)
\* the row is counted by  WHERE status = 'open' and nothing else
IsOpenAlways(row) == TRUE

\* WHERE status = 'open'
IsOpen(row) == row.status = "open"

\* WHERE ai_thread_name IS NOT NULL
IsAnalyzed(row) == row.ai_thread_name # NULL

\* the three count queries: SELECT COUNT(*) FROM t [WHERE ...]
Counted(kind, row) ==
    CASE kind = "total"  -> TRUE
      [] kind = "active" -> IsOpen(row)
      [] kind = "ai"     -> IsAnalyzed(row)

CountQuery(kind, rows) == Cardinality({i \in 1..Len(rows) : Counted(kind, rows[i])})

\* db.QueryRow(countQuery).Scan(&count): the count is added only when err == nil
CountOrZero(kind, ch, faults) ==
    IF QueryFails(kind, ch, faults) THEN 0 ELSE CountQuery(kind, tables[ch.table_name])

RECURSIVE SumCounts(_, _, _)
SumCounts(cat, kind, faults) ==
    IF cat = <<>> THEN 0
    ELSE CountOrZero(kind, Head(cat), faults) + SumCounts(Tail(cat), kind, faults)

\* lines 69-90: the total is computed only when the count of channels and the
\* first listing of table names both succeed
TotalThreads(faults) ==
    IF Fault("countChannels1", "") \in faults \/ Fault("listTables1", "") \in faults
    THEN 0
    ELSE SumCounts(catalog, "total", faults)

\* lines 92-117: one more listing of table names, two counts per table
ActiveThreads(faults) ==
    IF Fault("listTables2", "") \in faults THEN 0
    ELSE SumCounts(catalog, "active", faults)

AIAnalyzed(faults) ==
    IF Fault("listTables2", "") \in faults THEN 0
    ELSE SumCounts(catalog, "ai", faults)

\* lines 119-123
ChannelCount(faults) ==
    IF Fault("countChannels2", "") \in faults THEN 0 ELSE Len(catalog)

StatsResponse(faults) ==
    IF ConnFault \in faults
    THEN JSONError(StatusInternalServerError, "Database connection failed")
    ELSE JSONStats(StatusOK,
             [totalThreads |-> TotalThreads(faults),
              activeThreads |-> ActiveThreads(faults),
              channels |-> ChannelCount(faults),
              aiAnalyzed |-> AIAnalyzed(faults)])

\* the statements on the channels table
CountChannelsQuery == Statement(<<Literal("SELECT COUNT(*) FROM channels")>>, <<>>)

ListTablesQuery == Statement(<<Literal("SELECT table_name FROM channels")>>, <<>>)

\* countQuery, activeQuery, aiQuery
CountStatement(kind, tableName) ==
    Statement(
        <<Literal("SELECT COUNT(*) FROM "), Formatted(tableName, "catalog")>>
        \o (CASE kind = "total"  -> <<>>
              [] kind = "active" -> <<Literal(" WHERE status = 'open'")>>
              [] kind = "ai"     -> <<Literal(" WHERE ai_thread_name IS NOT NULL")>>),
        <<>>)

\* the count statements of one pass over the listed table names
RECURSIVE CountStatements(_, _)
CountStatements(cat, kinds) ==
    IF cat = <<>> THEN <<>>
    ELSE [i \in 1..Len(kinds) |-> CountStatement(kinds[i], Head(cat).table_name)]
         \o CountStatements(Tail(cat), kinds)

\* everything GetDashboardStats sends to the store
StatsStatements(faults) ==
    IF ConnFault \in faults THEN <<>>
    ELSE <<CountChannelsQuery>>
         \o (IF Fault("countChannels1", "") \in faults THEN <<>>
             ELSE <<ListTablesQuery>>
                  \o (IF Fault("listTables1", "") \in faults THEN <<>>
                      ELSE CountStatements(catalog, <<"total">>)))
         \o <<ListTablesQuery>>
         \o (IF Fault("listTables2", "") \in faults THEN <<>>
             ELSE CountStatements(catalog, <<"active", "ai">>))
         \o <<CountChannelsQuery>>

\* the resources of GetDashboardStats: the two listings of table names are
\* closed by deferred calls at the return
StatsEvents(faults) ==
    LET first == Fault("countChannels1", "") \notin faults
                 /\ Fault("listTables1", "") \notin faults
        second == Fault("listTables2", "") \notin faults
    IN  IF ConnFault \in faults THEN ConnEvents(faults)
        ELSE ConnEvents(faults)
             \o (IF first THEN <<Acquire("rows1")>> ELSE <<>>)
             \o (IF second THEN <<Acquire("rows2"), Release("rows2")>> ELSE <<>>)
             \o (IF first THEN <<Release("rows1")>> ELSE <<>>)
             \o <<Release("db")>>

GetDashboardStats(faults) ==
    /\ Idle
    /\ request' = [op |-> "stats", limit |-> <<>>, channel |-> "", priority |-> "",
                   user_ids |-> <<>>, faults |-> faults]
    /\ response' = StatsResponse(faults)
    /\ queries' = StatsStatements(faults)
    /\ events' = StatsEvents(faults)
    /\ UNCHANGED aside
    /\ UNCHANGED store

\* the queries of the handler on the channels table, and on a channel's table
CatalogQueries == {"countChannels1", "listTables1", "listTables2", "countChannels2"}

StatsFaultPoints ==
    {Fault(q, "") : q \in CatalogQueries}
    \cup {Fault(kind, t) : kind \in {"total", "active", "ai"}, t \in TableNames}

\* The connection fails, or up to MaxFaults of the handler's queries do.
StatsFaultSets ==
    {{ConnFault}} \cup {F \in SUBSET StatsFaultPoints : Cardinality(F) <= MaxFaults}

(***************************************************************************)
(* GetChannels.  The cached counters and the timestamps of a catalog row   *)
(* are copied to the response as they are; the records here carry the      *)
(* identity and the label.                                                 *)
(***************************************************************************)
\* the channel names in ascending order of the store's collation
ChannelNames == <<"docs", "eng", "ops">>

NameRank(name) == CHOOSE i \in 1..Len(ChannelNames) : ChannelNames[i] = name

\* ORDER BY channel_name: rows of equal name keep their scan order
RECURSIVE InsertByName(_, _)
InsertByName(sorted, r) ==
    IF sorted = <<>> THEN <<r>>
    ELSE IF NameRank(r.channel_name) < NameRank(Head(sorted).channel_name)
    THEN <<r>> \o sorted
    ELSE <<Head(sorted)>> \o InsertByName(Tail(sorted), r)

RECURSIVE OrderByChannelName(_)
OrderByChannelName(rows) ==
    IF rows = <<>> THEN <<>>
    ELSE InsertByName(OrderByChannelName(SubSeq(rows, 1, Len(rows) - 1)), rows[Len(rows)])

\* channel := map[string]interface{}{"channel_id": channelID, ...}
ScanChannel(row) == [channel_id |-> row.channel_id, channel_name |-> row.channel_name]

\* for rows.Next() { ...; channels = append(channels, channel) }
RECURSIVE ScanChannels(_, _)
ScanChannels(acc, rows) ==
    IF rows = <<>> THEN acc
    ELSE ScanChannels(AppendSlice(acc, ScanChannel(Head(rows))), Tail(rows))

ChannelsQuery ==
    Statement(<<Literal("SELECT channel_id, ... FROM channels ORDER BY channel_name")>>, <<>>)

ChannelsResponse(faults) ==
    IF ConnFault \in faults
    THEN JSONError(StatusInternalServerError, "Database connection failed")
    ELSE IF Fault("channels", "") \in faults
    THEN JSONError(StatusInternalServerError, "Failed to query channels")
    ELSE JSONArray(StatusOK, ScanChannels(NilSlice, OrderByChannelName(catalog)))

ChannelsStatements(faults) == IF ConnFault \in faults THEN <<>> ELSE <<ChannelsQuery>>

\* the resources of GetChannels
ChannelsEvents(faults) ==
    IF ConnFault \in faults THEN ConnEvents(faults)
    ELSE ConnEvents(faults)
         \o (IF Fault("channels", "") \in faults THEN <<>>
             ELSE <<Acquire("rows"), Release("rows")>>)
         \o <<Release("db")>>

\* the sorted listing written back to the channels table
GetChannelsStoring(faults) ==
    /\ Idle
    /\ request' = [op |-> "channels", limit |-> <<>>, channel |-> "", priority |-> "",
                   user_ids |-> <<>>, faults |-> faults]
    /\ response' = ChannelsResponse(faults)
    /\ queries' = ChannelsStatements(faults)
    /\ events' = ChannelsEvents(faults)
    /\ UNCHANGED aside
    /\ catalog' = IF faults = {} THEN OrderByChannelName(catalog) ELSE catalog
    /\ UNCHANGED <<exists, tables, profiles>>

GetChannels(faults) ==
    /\ Idle
    /\ request' = [op |-> "channels", limit |-> <<>>, channel |-> "", priority |-> "",
                   user_ids |-> <<>>, faults |-> faults]
    /\ response' = ChannelsResponse(faults)
    /\ queries' = ChannelsStatements(faults)
    /\ events' = ChannelsEvents(faults)
    /\ UNCHANGED aside
    /\ UNCHANGED store

ChannelsFaultSets == {{}, {ConnFault}, {Fault("channels", "")}}

(***************************************************************************)
(* GetUserProfiles.                                                        *)
(***************************************************************************)
HasComma(s) == \E i \in 1..Len(s) : s[i] = ","

FirstComma(s) == CHOOSE i \in 1..Len(s) : s[i] = "," /\ \A j \in 1..(i - 1) : s[j] # ","

\* strings.Split(s, ","): the pieces between the commas, empty ones included
RECURSIVE Split(_)
Split(s) ==
    IF ~HasComma(s) THEN <<s>>
    ELSE <<SubSeq(s, 1, FirstComma(s) - 1)>> \o Split(SubSeq(s, FirstComma(s) + 1, Len(s)))

\* the trimming left out
TrimSpaceNot(s) == s

\* strings.TrimSpace
RECURSIVE TrimSpace(_)
TrimSpace(s) ==
    IF s = <<>> THEN s
    ELSE IF Head(s) = " " THEN TrimSpace(Tail(s))
    ELSE IF s[Len(s)] = " " THEN TrimSpace(SubSeq(s, 1, Len(s) - 1))
    ELSE s

\* args[i] = strings.TrimSpace(userID)
BoundArgs(userIDs) == [i \in 1..Len(Split(userIDs)) |-> TrimSpace(Split(userIDs)[i])]

\* for rows.Next() over  WHERE user_id IN (args...)
RECURSIVE ScanProfiles(_, _, _)
ScanProfiles(acc, rows, args) ==
    IF rows = <<>> THEN acc
    ELSE ScanProfiles(IF Head(rows).user_id \in Range(args)
                      THEN AppendSlice(acc, Head(rows))
                      ELSE acc,
                      Tail(rows), args)

ProfilesResponse(userIDs, faults) ==
    IF ConnFault \in faults
    THEN JSONError(StatusInternalServerError, "Database connection failed")
    ELSE IF userIDs = <<>>
    THEN JSONError(StatusBadRequest, "user_ids parameter is required")
    ELSE IF Len(Split(userIDs)) = 0
    THEN JSONArray(StatusOK, EmptySlice)
    ELSE IF Fault("profiles", "") \in faults
    THEN JSONError(StatusInternalServerError, "Failed to query user profiles")
    ELSE JSONArray(StatusOK, ScanProfiles(NilSlice, profiles, BoundArgs(userIDs)))

\* strings.Join(placeholders, ",") for  placeholders[i] = "$i+1"
JoinPlaceholders(n) ==
    [k \in 1..(2 * n - 1) |-> IF k % 2 = 1 THEN Placeholder((k + 1) \div 2) ELSE Literal(",")]

\* query and args of the lookup in user_profiles
ProfilesQuery(userIDs) ==
    Statement(
        <<Literal("SELECT ... FROM user_profiles WHERE user_id IN (")>>
        \o JoinPlaceholders(Len(Split(userIDs)))
        \o <<Literal(")")>>,
        BoundArgs(userIDs))

\* everything GetUserProfiles sends to the store
ProfilesStatements(userIDs, faults) ==
    IF ConnFault \in faults \/ userIDs = <<>> \/ Len(Split(userIDs)) = 0 THEN <<>>
    ELSE <<ProfilesQuery(userIDs)>>

\* the resources of GetUserProfiles
ProfilesEvents(userIDs, faults) ==
    IF ConnFault \in faults THEN ConnEvents(faults)
    ELSE ConnEvents(faults)
         \o (IF userIDs = <<>> \/ Len(Split(userIDs)) = 0
                \/ Fault("profiles", "") \in faults
             THEN <<>>
             ELSE <<Acquire("rows"), Release("rows")>>)
         \o <<Release("db")>>

GetUserProfiles(userIDs, faults) ==
    /\ Idle
    /\ request' = [op |-> "profiles", limit |-> <<>>, channel |-> "", priority |-> "",
                   user_ids |-> userIDs, faults |-> faults]
    /\ response' = ProfilesResponse(userIDs, faults)
    /\ queries' = ProfilesStatements(userIDs, faults)
    /\ events' = ProfilesEvents(userIDs, faults)
    /\ UNCHANGED aside
    /\ UNCHANGED store

ProfilesFaultSets == {{}, {ConnFault}, {Fault("profiles", "")}}

\* the profile-sync writer
InsertProfile(id) ==
    /\ Idle
    /\ Len(profiles) < MaxProfiles
    /\ \A i \in 1..Len(profiles) : profiles[i].user_id # id
    /\ profiles' = Append(profiles, [user_id |-> id, name |-> "n"])
    /\ Forget
    /\ UNCHANGED <<catalog, exists, tables>>

(***************************************************************************)
(* GetDashboardStats and GetThreads observed statement by statement: the   *)
(* writers act between two statements of one invocation.  run.slow holds   *)
(* the tables on which a statement of this invocation never completes;     *)
(* the handlers call db.Query and db.QueryRow without a context or         *)
(* deadline, so such a statement is waited for.                            *)
(***************************************************************************)
others == <<request, response, queries, events, view>>

\* db.Query / db.QueryRow on the table returns
Completes(t) == t \notin run.slow

\* the handler is entered and getDBConnection succeeds
StatsBegin(slow) ==
    /\ Idle
    /\ run.phase = "idle"
    /\ run' = [NoRun EXCEPT !.op = "stats", !.phase = "countChannels", !.slow = slow]
    /\ UNCHANGED <<store, others>>

\* line 71: SELECT COUNT(*) FROM channels
StatsCountChannels ==
    /\ run.op = "stats"
    /\ run.phase = "countChannels"
    /\ run' = [run EXCEPT !.phase = "listTables"]
    /\ UNCHANGED <<store, others>>

\* line 74: SELECT table_name FROM channels
StatsListTables ==
    /\ run.op = "stats"
    /\ run.phase = "listTables"
    /\ run' = [run EXCEPT !.phase = "total", !.i = 1,
                           !.cat = [k \in 1..Len(catalog) |-> catalog[k].table_name]]
    /\ UNCHANGED <<store, others>>

\* lines 78-87: SELECT COUNT(*) FROM <table>, added when it succeeds
StatsCountTotal ==
    /\ run.op = "stats"
    /\ run.phase = "total"
    /\ run.i <= Len(run.cat)
    /\ Completes(run.cat[run.i])
    /\ LET t == run.cat[run.i]
       IN  run' = IF t \in exists
                  THEN [run EXCEPT !.i = @ + 1, !.summed = @ + 1,
                                   !.stats.totalThreads = @ + CountQuery("total", tables[t])]
                  ELSE [run EXCEPT !.i = @ + 1]
    /\ UNCHANGED <<store, others>>

\* line 93: SELECT table_name FROM channels, once more
StatsListTablesAgain ==
    /\ run.op = "stats"
    /\ run.phase = "total"
    /\ run.i > Len(run.cat)
    /\ run' = [run EXCEPT !.phase = "active", !.i = 1,
                           !.cat = [k \in 1..Len(catalog) |-> catalog[k].table_name]]
    /\ UNCHANGED <<store, others>>

\* lines 101-105: SELECT COUNT(*) FROM <table> WHERE status = 'open'
StatsCountActive ==
    /\ run.op = "stats"
    /\ run.phase = "active"
    /\ run.i <= Len(run.cat)
    /\ Completes(run.cat[run.i])
    /\ LET t == run.cat[run.i]
       IN  run' = IF t \in exists
                  THEN [run EXCEPT !.phase = "ai",
                                   !.stats.activeThreads = @ + CountQuery("active", tables[t])]
                  ELSE [run EXCEPT !.phase = "ai"]
    /\ UNCHANGED <<store, others>>

\* lines 108-112: SELECT COUNT(*) FROM <table> WHERE ai_thread_name IS NOT NULL
StatsCountAI ==
    /\ run.op = "stats"
    /\ run.phase = "ai"
    /\ Completes(run.cat[run.i])
    /\ LET t == run.cat[run.i]
       IN  run' = IF t \in exists
                  THEN [run EXCEPT !.phase = "active", !.i = @ + 1,
                                   !.stats.aiAnalyzed = @ + CountQuery("ai", tables[t])]
                  ELSE [run EXCEPT !.phase = "active", !.i = @ + 1]
    /\ UNCHANGED <<store, others>>

\* lines 120-125: SELECT COUNT(*) FROM channels into stats.Channels, then
\* ctx.JSON(http.StatusOK, stats)
StatsRespond ==
    /\ run.op = "stats"
    /\ run.phase = "active"
    /\ run.i > Len(run.cat)
    /\ request' = [NoRequest EXCEPT !.op = "stats"]
    /\ response' = JSONStats(StatusOK, [run.stats EXCEPT !.channels = Len(catalog)])
    /\ run' = NoRun
    /\ UNCHANGED <<store, queries, events, view>>

\* GetThreads is entered without parameters and getDBConnection succeeds
ThreadsBegin(slow) ==
    /\ Idle
    /\ run.phase = "idle"
    /\ run' = [NoRun EXCEPT !.op = "threads", !.phase = "listChannels", !.slow = slow]
    /\ UNCHANGED <<store, others>>

\* line 151: SELECT channel_id, channel_name, table_name FROM channels
ThreadsListChannels ==
    /\ run.op = "threads"
    /\ run.phase = "listChannels"
    /\ run' = [run EXCEPT !.phase = "scan", !.i = 1, !.cat = catalog]
    /\ UNCHANGED <<store, others>>

\* lines 161-227: one channel's statement and the scan of its rows
ThreadsScanChannel ==
    /\ run.op = "threads"
    /\ run.phase = "scan"
    /\ run.i <= Len(run.cat)
    /\ Completes(run.cat[run.i].table_name)
    /\ run' = [run EXCEPT !.i = @ + 1,
                           !.acc = ThreadsStep([nil |-> FALSE, items |-> @], run.cat[run.i],
                                               "", "", DefaultLimit, {}).items]
    /\ UNCHANGED <<store, others>>

\* lines 231-235
ThreadsRespond ==
    /\ run.op = "threads"
    /\ run.phase = "scan"
    /\ run.i > Len(run.cat)
    /\ request' = [NoRequest EXCEPT !.op = "threads"]
    /\ response' = JSONArray(StatusOK,
                              Truncate([nil |-> FALSE, items |-> run.acc], DefaultLimit))
    /\ run' = NoRun
    /\ UNCHANGED <<store, queries, events, view>>

\* a statement of the observed invocation returns
HandlerStep ==
    \/ StatsCountChannels
    \/ StatsListTables
    \/ StatsCountTotal
    \/ StatsListTablesAgain
    \/ StatsCountActive
    \/ StatsCountAI
    \/ StatsRespond
    \/ ThreadsListChannels
    \/ ThreadsScanChannel
    \/ ThreadsRespond

(***************************************************************************)
(* The dashboard UI (ChannelThreads.jsx, ChannelList.jsx).  JavaScript     *)
(* values: a tag, the characters of a string, the elements of an array,    *)
(* the value of a number.                                                  *)
(***************************************************************************)
JSValue(t, chars, elems, num) == [t |-> t, s |-> chars, a |-> elems, n |-> num]

Undefined == JSValue("undefined", <<>>, <<>>, 0)

Null == JSValue("null", <<>>, <<>>, 0)

Str(chars) == JSValue("string", chars, <<>>, 0)

Num(n) == JSValue("number", <<>>, <<>>, n)

Bool(b) == JSValue("boolean", <<>>, <<>>, IF b THEN 1 ELSE 0)

Arr(elems) == JSValue("array", <<>>, elems, 0)

Obj == JSValue("object", <<>>, <<>>, 0)

\* !v
Falsy(v) ==
    \/ v.t \in {"undefined", "null"}
    \/ v.t = "string" /\ v.s = <<>>
    \/ v.t \in {"number", "boolean"} /\ v.n = 0

\* the characters of the texts: JSON punctuation, the quote, a digit, the
\* separators of the delimited encoding, the id prefix and another letter
Quote == "\""

TextChars == {"U", "V", "1", ",", " ", "[", "]", Quote}

(***************************************************************************)
(* JSON.parse on texts over TextChars: arrays, strings without escapes,    *)
(* numbers of the digit 1, blanks between tokens.                          *)
(***************************************************************************)
Parsed(val, next) == [ok |-> TRUE, val |-> val, next |-> next]

SyntaxError == [ok |-> FALSE, val |-> Undefined, next |-> 0]

\* the first position from i on that holds no blank
RECURSIVE SkipBlanks(_, _)
SkipBlanks(s, i) ==
    IF i <= Len(s) /\ s[i] = " " THEN SkipBlanks(s, i + 1) ELSE i

\* the first position from i on that holds no digit
RECURSIVE SkipDigits(_, _)
SkipDigits(s, i) ==
    IF i <= Len(s) /\ IsDigit(s[i]) THEN SkipDigits(s, i + 1) ELSE i

\* a string token opening at i
ParseStringAt(s, i) ==
    IF \E j \in (i + 1)..Len(s) : s[j] = Quote
    THEN LET j == CHOOSE k \in (i + 1)..Len(s) :
                      s[k] = Quote /\ \A m \in (i + 1)..(k - 1) : s[m] # Quote
         IN  Parsed(Str(SubSeq(s, i + 1, j - 1)), j + 1)
    ELSE SyntaxError

RECURSIVE ParseValueAt(_, _)
RECURSIVE ParseElementsAt(_, _, _)

\* a value starting at or after i
ParseValueAt(s, i) ==
    LET j == SkipBlanks(s, i)
    IN  IF j > Len(s) THEN SyntaxError
        ELSE IF s[j] = Quote THEN ParseStringAt(s, j)
        ELSE IF IsDigit(s[j])
        THEN IF s[j] = "0" /\ SkipDigits(s, j) > j + 1 THEN SyntaxError
             ELSE Parsed(Num(DigitsValue(SubSeq(s, j, SkipDigits(s, j) - 1))),
                         SkipDigits(s, j))
        ELSE IF s[j] = "["
        THEN IF SkipBlanks(s, j + 1) <= Len(s) /\ s[SkipBlanks(s, j + 1)] = "]"
             THEN Parsed(Arr(<<>>), SkipBlanks(s, j + 1) + 1)
             ELSE ParseElementsAt(s, j + 1, <<>>)
        ELSE SyntaxError

\* the elements of an array from i on, acc being those before
ParseElementsAt(s, i, acc) ==
    LET v == ParseValueAt(s, i)
        j == SkipBlanks(s, v.next)
    IN  IF ~v.ok \/ j > Len(s) THEN SyntaxError
        ELSE IF s[j] = "]" THEN Parsed(Arr(Append(acc, v.val)), j + 1)
        ELSE IF s[j] = "," THEN ParseElementsAt(s, j + 1, Append(acc, v.val))
        ELSE SyntaxError

\* JSON.parse(text): a value or a SyntaxError exception
JSONParse(s) ==
    LET v == ParseValueAt(s, 1)
    IN  IF v.ok /\ SkipBlanks(s, v.next) = Len(s) + 1 THEN v ELSE SyntaxError

(***************************************************************************)
(* parseStakeholders (the same function in ChannelThreads.jsx and          *)
(* ChannelList.jsx).                                                       *)
(***************************************************************************)
\* what a call gave: a returned array, or an exception leaving the function
Returns(elems) == [done |-> TRUE, threw |-> FALSE, val |-> elems]

Throws == [done |-> TRUE, threw |-> TRUE, val |-> <<>>]

NotCalled == [done |-> FALSE, threw |-> FALSE, val |-> <<>>]

\* id.startsWith('U') on the characters of a string
StartsWithU(chars) == chars # <<>> /\ chars[1] = "U"

\* id => id && id.startsWith('U') calls startsWith on a truthy value that
\* has no such method: TypeError
CallbackThrows(id) == ~Falsy(id) /\ id.t # "string"

\* id => id && id.startsWith('U')
KeepsParsed(id) == ~Falsy(id) /\ id.t = "string" /\ StartsWithU(id.s)

IsSeparator(c) == c \in {",", " "}

\* the whole text as one piece
SplitSeparatorsNot(s) == <<s>>

\* text.split(/[,\s]+/): the pieces between the maximal runs of separators,
\* an empty piece before a leading run and after a trailing one
RECURSIVE SplitSeparators(_)
SplitSeparators(s) ==
    IF \A i \in 1..Len(s) : ~IsSeparator(s[i]) THEN <<s>>
    ELSE LET i == CHOOSE k \in 1..Len(s) :
                      IsSeparator(s[k]) /\ \A m \in 1..(k - 1) : ~IsSeparator(s[m])
             j == CHOOSE k \in i..Len(s) :
                      /\ \A m \in i..k : IsSeparator(s[m])
                      /\ k = Len(s) \/ ~IsSeparator(s[k + 1])
         IN  <<SubSeq(s, 1, i - 1)>> \o SplitSeparators(SubSeq(s, j + 1, Len(s)))

\* .map(id => id.trim()).filter(id => id.length > 0 && id.startsWith('U'))
Fallback(s) ==
    LET pieces == SplitSeparators(s)
        trimmed == [i \in 1..Len(pieces) |-> Str(TrimSpace(pieces[i]))]
    IN  SelectSeq(trimmed, LAMBDA id : Len(id.s) > 0 /\ StartsWithU(id.s))

\* parsed.filter(...) outside the try block
ParseStakeholdersUncaught(stakeholdersString) ==
    IF Falsy(stakeholdersString) THEN Returns(<<>>)
    ELSE IF stakeholdersString.t = "array" THEN Returns(stakeholdersString.a)
    ELSE IF stakeholdersString.t = "string"
    THEN LET parsed == JSONParse(stakeholdersString.s)
         IN  IF parsed.ok /\ parsed.val.t = "array"
             THEN IF \E i \in 1..Len(parsed.val.a) : CallbackThrows(parsed.val.a[i])
                  THEN Throws
                  ELSE Returns(SelectSeq(parsed.val.a, KeepsParsed))
             ELSE Returns(Fallback(stakeholdersString.s))
    ELSE Returns(<<>>)

\* parseStakeholders: a SyntaxError of JSON.parse and a TypeError of the
\* filter callback are both caught by the catch block, and the fallback runs
ParseStakeholders(stakeholdersString) ==
    IF Falsy(stakeholdersString) THEN Returns(<<>>)
    ELSE IF stakeholdersString.t = "array" THEN Returns(stakeholdersString.a)
    ELSE IF stakeholdersString.t = "string"
    THEN LET parsed == JSONParse(stakeholdersString.s)
         IN  IF /\ parsed.ok
                /\ parsed.val.t = "array"
                /\ \A i \in 1..Len(parsed.val.a) : ~CallbackThrows(parsed.val.a[i])
             THEN Returns(SelectSeq(parsed.val.a, KeepsParsed))
             ELSE Returns(Fallback(stakeholdersString.s))
    ELSE Returns(<<>>)

(***************************************************************************)
(* The ChannelThreads component: its state hooks, the /api/threads fetches *)
(* in flight, and the ai_stakeholders value of the thread it renders.      *)
(***************************************************************************)
\* the component is not mounted
NoView ==
    [mounted |-> FALSE, channel |-> FALSE, lookup |-> "none",
     filter |-> "all", loading |-> TRUE, error |-> FALSE,
     issued |-> 0, inflight |-> {}, shown |-> [id |-> 0, filter |-> "none"],
     value |-> Undefined, list |-> <<>>, encoding |-> "none",
     parsed |-> NotCalled, reparsed |-> NotCalled]

beside == <<catalog, exists, tables, profiles, request, response, queries, events, run>>

\* a thread is rendered: parseStakeholders(thread.ai_stakeholders)
RenderStakeholders ==
    /\ ~view.parsed.done
    /\ view' = [view EXCEPT !.parsed = ParseStakeholders(view.value)]
    /\ UNCHANGED beside

\* the result is handed to a child that parses it once more
RenderAgain ==
    /\ view.parsed.done
    /\ ~view.parsed.threw
    /\ ~view.reparsed.done
    /\ view' = [view EXCEPT !.reparsed = ParseStakeholders(Arr(view.parsed.val))]
    /\ UNCHANGED beside

\* the filter buttons: all, active, high, medium, low
Filters == {"all", "active", "high", "medium", "low"}

\* the filter card and the Refresh button are drawn on every render
ControlsAlwaysRendered == view.mounted

\* the render returns the loading screen while loading is set and the error
\* card while error is set; the filter card and the Refresh button come
\* after both returns
ControlsRendered == view.mounted /\ ~view.loading /\ ~view.error

\* fetchThreads up to its await: without a channel, channel.channel_name
\* throws inside the try block (catch: setError, finally: setLoading(false));
\* with one, the request leaves with the filter of this render
FetchThreads(v) ==
    IF ~v.channel
    THEN [v EXCEPT !.loading = FALSE, !.error = TRUE]
    ELSE [v EXCEPT !.loading = TRUE, !.error = FALSE, !.issued = @ + 1,
                   !.inflight = @ \cup {[id |-> v.issued + 1, filter |-> v.filter]}]

\* room for one more request within the bound
MayFetch == view.channel => view.issued < MaxFetches

\* the component mounts, with the channel of the navigation state or
\* without one; both effects run
Mount(known) ==
    /\ ~view.mounted
    /\ view' = FetchThreads([view EXCEPT !.mounted = TRUE, !.channel = known,
                                         !.lookup = IF known THEN "none" ELSE "inflight"])
    /\ UNCHANGED beside

\* fetchChannelData settles: setChannel(foundChannel) runs the effect again
ChannelData(found) ==
    /\ view.lookup = "inflight"
    /\ view' = IF found
                THEN FetchThreads([view EXCEPT !.lookup = "done", !.channel = TRUE])
                ELSE [view EXCEPT !.lookup = "done"]
    /\ UNCHANGED beside

\* a filter button: setFilter(f), then the effect on [channel, filter]
SetFilter(f) ==
    /\ ControlsRendered
    /\ MayFetch
    /\ f # view.filter
    /\ view' = FetchThreads([view EXCEPT !.filter = f])
    /\ UNCHANGED beside

\* the Refresh button
Refresh ==
    /\ ControlsRendered
    /\ MayFetch
    /\ view' = FetchThreads(view)
    /\ UNCHANGED beside

\* the Try Again button of the error card
TryAgain ==
    /\ view.mounted
    /\ ~view.loading
    /\ view.error
    /\ MayFetch
    /\ view' = FetchThreads(view)
    /\ UNCHANGED beside

\* a request settles, in any order: setThreads with its response, or
\* setError when it failed; setLoading(false) either way
FetchSettle(r, ok) ==
    /\ r \in view.inflight
    /\ view' = [view EXCEPT !.inflight = @ \ {r},
                            !.shown = IF ok THEN r ELSE @,
                            !.error = IF ok THEN @ ELSE TRUE,
                            !.loading = FALSE]
    /\ UNCHANGED beside

(***************************************************************************)
(* The specification of the thread listing: writers build small tables of  *)
(* rows that differ in latest_reply, ai_priority and ai_stakeholders.      *)
(***************************************************************************)
ChannelParams == {"", "docs", "ops"}

PriorityParams == {"", "high", "none"}

LimitParams == {<<>>, <<"1">>, <<"2">>}

\* The requests observed: every combination of the parameters on a healthy
\* store, and one request for each way the store can fail before any
\* parameter is used.
ThreadRequests ==
    [limit : LimitParams, channel : ChannelParams, priority : PriorityParams,
     faults : {{}}]
    \cup [limit : {<<>>}, channel : {""}, priority : {""},
          faults : ThreadsFaultSets \ {{}}]

Init ==
    /\ catalog = <<>>
    /\ exists = {}
    /\ tables = [t \in TableNames |-> <<>>]
    /\ profiles = <<>>
    /\ request = NoRequest
    /\ response = NoResponse
    /\ queries = <<>>
    /\ events = <<>>
    /\ run = NoRun
    /\ view = NoView

Next ==
    \/ \E ch \in Channels, withTable \in BOOLEAN : AddChannel(ch, withTable)
    \/ \E ch \in Channels : CreateTable(ch)
    \/ \E ch \in Channels : DropTable(ch)
    \/ \E ch \in Channels, in \in ThreadInputs : InsertRow(ch, in)
    \/ \E r \in ThreadRequests : GetThreads(r.limit, r.channel, r.priority, r.faults)
    \/ Deliver

Spec == Init /\ [][Next]_vars

(***************************************************************************)
(* The specification of the caps: the store starts loaded with tables of   *)
(* up to DefaultLimit + MaxOver rows and is only read; the limit parameter *)
(* ranges over well-formed and malformed values.                           *)
(***************************************************************************)
ChannelOfTable(t) == CHOOSE ch \in Channels : ch.table_name = t

\* the i-th row of a loaded table: latest_reply cycles through Times, every
\* other row carries ai_priority "high"
LoadedRow(ch, i) ==
    MkRow(i, ch.channel_id,
          [latest_reply |-> ((i - 1) % MaxTime) + 1, status |-> "open",
           ai_thread_name |-> "topic", ai_stakeholders |-> "U1",
           ai_priority |-> IF i % 2 = 1 THEN "high" ELSE NULL])

LoadedTable(ch, n) == [i \in 1..n |-> LoadedRow(ch, i)]

LoadSizes == 0..(DefaultLimit + MaxOver)

\* every scan order of the full catalog
CatalogOrders ==
    {c \in [1..Cardinality(Channels) -> Channels] : Range(c) = Channels}

InitLoaded ==
    /\ catalog \in CatalogOrders
    /\ exists = TableNames
    /\ \E size \in [TableNames -> LoadSizes] :
           tables = [t \in TableNames |-> LoadedTable(ChannelOfTable(t), size[t])]
    /\ profiles = <<>>
    /\ request = NoRequest
    /\ response = NoResponse
    /\ queries = <<>>
    /\ events = <<>>
    /\ run = NoRun
    /\ view = NoView

\* limit parameters, each with the cap the handler is to apply for it
LimitCases ==
    { [str |-> <<>>,            cap |-> DefaultLimit],
      [str |-> <<"a">>,         cap |-> DefaultLimit],
      [str |-> <<"1", "a">>,    cap |-> DefaultLimit],
      [str |-> <<" ", "1">>,    cap |-> DefaultLimit],
      [str |-> <<"0">>,         cap |-> DefaultLimit],
      [str |-> <<"-", "1">>,    cap |-> DefaultLimit],
      [str |-> <<"-">>,         cap |-> DefaultLimit],
      [str |-> <<"1">>,         cap |-> 1],
      [str |-> <<"2">>,         cap |-> 2],
      [str |-> <<"+", "2">>,    cap |-> 2],
      [str |-> <<"0", "3">>,    cap |-> 3],
      [str |-> <<"1", "2">>,    cap |-> 12] }

ExpectedCap(limitStr) == (CHOOSE c \in LimitCases : c.str = limitStr).cap

LimitRequests ==
    [limit : {c.str : c \in LimitCases}, channel : {"", "docs"},
     priority : {"", "high"}, faults : {{}}]

NextLimit ==
    \/ \E r \in LimitRequests : GetThreads(r.limit, r.channel, r.priority, r.faults)
    \/ Deliver

SpecLimit == InitLoaded /\ [][NextLimit]_vars

(***************************************************************************)
(* The specification of the statistics: writers build small tables of rows *)
(* that differ in status and ai_thread_name; both aggregating handlers     *)
(* read them, with failing connections and queries.                        *)
(***************************************************************************)
NextStats ==
    \/ \E ch \in Channels, withTable \in BOOLEAN : AddChannel(ch, withTable)
    \/ \E ch \in Channels : CreateTable(ch)
    \/ \E ch \in Channels : DropTable(ch)
    \/ \E ch \in Channels, in \in StatsInputs : InsertRow(ch, in)
    \/ \E faults \in StatsFaultSets : GetDashboardStats(faults)
    \/ \E faults \in ThreadsFaultSets \cup ThreadsTableFaultSets :
           GetThreads(<<>>, "", "", faults)
    \/ Deliver

SpecStats == Init /\ [][NextStats]_vars

(***************************************************************************)
(* The specification of the profile lookup: the user_ids parameter ranges  *)
(* over the strings of up to MaxIdsLen characters of IdChars.              *)
(***************************************************************************)
IdChars == {"U", "V", ",", " "}

RECURSIVE Strings(_)
Strings(n) ==
    IF n = 0 THEN {<<>>}
    ELSE Strings(n - 1)
         \cup {Append(s, c) : s \in {t \in Strings(n - 1) : Len(t) = n - 1}, c \in IdChars}

UserIdsParams == Strings(MaxIdsLen)

\* the user ids the profile-sync writer may store
ProfileIds == {<<"U">>, <<"V">>, <<"U", "V">>}

ProfileRequests ==
    [user_ids : UserIdsParams, faults : {{}}]
    \cup [user_ids : {<<"U">>}, faults : ProfilesFaultSets \ {{}}]

NextProfiles ==
    \/ \E id \in ProfileIds : InsertProfile(id)
    \/ \E r \in ProfileRequests : GetUserProfiles(r.user_ids, r.faults)
    \/ Deliver

SpecProfiles == Init /\ [][NextProfiles]_vars

(***************************************************************************)
(* The specification of the channel listing: channels are added in any     *)
(* order and renamed, so that the catalog holds equal names in either scan *)
(* order.                                                                  *)
(***************************************************************************)
\* a channel the catalog tracks before its table is created
LateChannel ==
    [channel_id |-> "C3", channel_name |-> "ops", table_name |-> "ops_threads"]

NextChannels ==
    \/ \E ch \in Channels, withTable \in BOOLEAN : AddChannel(ch, withTable)
    \/ AddChannel(LateChannel, FALSE)
    \/ \E i \in 1..Cardinality(Channels) + 1, name \in Range(ChannelNames) :
           RenameChannel(i, name)
    \/ \E faults \in ChannelsFaultSets : GetChannels(faults)
    \/ Deliver

SpecChannels == Init /\ [][NextChannels]_vars

(***************************************************************************)
(* The specification of the whole read API: the four handlers over one     *)
(* store that the writers fill with channels, thread rows and profiles.    *)
(***************************************************************************)
AnyInputs ==
    [latest_reply : {1}, status : {"open"}, ai_thread_name : {"topic"},
     ai_stakeholders : {NULL, "U1"}, ai_priority : {NULL, "high"}]

AnyThreadRequests ==
    [limit : {<<>>, <<"1">>}, channel : {"", "docs"}, priority : {"", "high"},
     faults : {{}}]
    \cup [limit : {<<>>}, channel : {""}, priority : {""},
          faults : (ThreadsFaultSets \ {{}}) \cup {PingFaultSet}]

AnyProfileRequests ==
    [user_ids : {<<>>, <<"U">>, <<"U", ",", "V">>, <<"V", ",", "V">>}, faults : {{}}]
    \cup [user_ids : {<<"U">>}, faults : (ProfilesFaultSets \ {{}}) \cup {PingFaultSet}]

NextAll ==
    \/ \E ch \in Channels, withTable \in BOOLEAN : AddChannel(ch, withTable)
    \/ \E ch \in Channels : CreateTable(ch)
    \/ \E ch \in Channels : DropTable(ch)
    \/ \E ch \in Channels, in \in AnyInputs : InsertRow(ch, in)
    \/ \E id \in ProfileIds : InsertProfile(id)
    \/ \E faults \in {{}, {ConnFault}, PingFaultSet, {Fault("listTables1", "")}} :
           GetDashboardStats(faults)
    \/ \E r \in AnyThreadRequests : GetThreads(r.limit, r.channel, r.priority, r.faults)
    \/ \E faults \in ChannelsFaultSets \cup {PingFaultSet} : GetChannels(faults)
    \/ \E r \in AnyProfileRequests : GetUserProfiles(r.user_ids, r.faults)
    \/ Deliver

SpecAll == Init /\ [][NextAll]_vars

(***************************************************************************)
(* The specification of the interleavings: the writers act between the     *)
(* statements of one invocation of GetDashboardStats or GetThreads.        *)
(***************************************************************************)
\* what a writer chooses for a new row here
StepInputs ==
    [latest_reply : {1}, status : {"open"}, ai_thread_name : {"topic"},
     ai_stakeholders : {"U1"}, ai_priority : {NULL}]

NextSteps ==
    \/ \E ch \in Channels : AddChannel(ch, TRUE)
    \/ \E ch \in Channels : DropTable(ch)
    \/ \E ch \in Channels, in \in StepInputs : InsertRow(ch, in)
    \/ \E slow \in SUBSET TableNames : StatsBegin(slow)
    \/ \E slow \in SUBSET TableNames : ThreadsBegin(slow)
    \/ HandlerStep
    \/ Deliver

\* every statement that can return does return
SpecSteps == Init /\ [][NextSteps]_vars /\ WF_vars(HandlerStep)

(***************************************************************************)
(* The specification of the attribution: tables may hold rows whose stored *)
(* channel_id is another channel's or no channel's.                        *)
(***************************************************************************)
AttributionRequests ==
    [limit : {<<>>}, channel : {"", "docs"}, priority : {""}, faults : {{}}]

NextAttribution ==
    \/ \E ch \in Channels : AddChannel(ch, TRUE)
    \/ \E ch \in Channels, in \in StepInputs : InsertRow(ch, in)
    \/ \E ch \in Channels, cid \in StoredChannelIds, in \in StepInputs :
           InsertForeignRow(ch, cid, in)
    \/ \E r \in AttributionRequests :
           GetThreads(r.limit, r.channel, r.priority, r.faults)
    \/ Deliver

SpecAttribution == Init /\ [][NextAttribution]_vars

(***************************************************************************)
(* The specification of the stakeholder parsing: the ai_stakeholders value *)
(* ranges over the texts of up to MaxTextLen characters, some longer       *)
(* texts, values that are not strings, and the two encodings of the lists  *)
(* of up to MaxIds ids.                                                    *)
(***************************************************************************)
RECURSIVE Texts(_)
Texts(n) ==
    IF n = 0 THEN {<<>>}
    ELSE Texts(n - 1)
         \cup {Append(t, c) : t \in {u \in Texts(n - 1) : Len(u) = n - 1}, c \in TextChars}

\* JSON arrays mixing ids, other strings and values that are not strings
LongTexts ==
    { <<"[", Quote, "U", Quote, ",", "1", "]">>,
      <<"[", "1", ",", Quote, "U", Quote, "]">>,
      <<"[", Quote, "U", Quote, ",", Quote, "V", Quote, "]">>,
      <<"[", Quote, "U", Quote, ",", "[", "]", "]">>,
      <<"[", Quote, "U", "1", Quote, ",", " ", Quote, "U", "V", Quote, "]">>,
      <<"[", Quote, "U", Quote, ",", Quote, Quote, "]">>,
      <<"[", "[", Quote, "U", Quote, "]", "]">> }

NonStrings ==
    { Undefined, Null, Num(0), Num(1), Bool(TRUE), Bool(FALSE), Obj,
      Arr(<<>>), Arr(<<Str(<<"U">>)>>), Arr(<<Num(1)>>), Arr(<<Str(<<"V">>), Null>>) }

\* ids: the prefix alone, with a digit, with a second prefix, with brackets
Ids ==
    { <<"U">>, <<"U", "1">>, <<"U", "U">>, <<"U", "[">>, <<"U", "]", "V">> }

IdLists == UNION {[1..n -> Ids] : n \in 0..MaxIds}

\* JSON.stringify of an array of ids (no character of an id needs an escape)
RECURSIVE JSONElements(_)
JSONElements(ids) ==
    IF ids = <<>> THEN <<>>
    ELSE <<Quote>> \o Head(ids) \o <<Quote>>
         \o (IF Len(ids) > 1 THEN <<",">> ELSE <<>>) \o JSONElements(Tail(ids))

JSONArrayText(ids) == <<"[">> \o JSONElements(ids) \o <<"]">>

\* ids.join(", ")
RECURSIVE DelimitedText(_)
DelimitedText(ids) ==
    IF ids = <<>> THEN <<>>
    ELSE Head(ids) \o (IF Len(ids) > 1 THEN <<",", " ">> ELSE <<>>)
         \o DelimitedText(Tail(ids))

StakeholderInputs ==
    {[value |-> Str(t), list |-> <<>>, encoding |-> "raw"] : t \in Texts(MaxTextLen) \cup LongTexts}
    \cup {[value |-> v, list |-> <<>>, encoding |-> "raw"] : v \in NonStrings}
    \cup {[value |-> Str(JSONArrayText(l)), list |-> l, encoding |-> "json"] : l \in IdLists}
    \cup {[value |-> Str(DelimitedText(l)), list |-> l, encoding |-> "delimited"] : l \in IdLists}

InitParse ==
    /\ catalog = <<>>
    /\ exists = {}
    /\ tables = [t \in TableNames |-> <<>>]
    /\ profiles = <<>>
    /\ request = NoRequest
    /\ response = NoResponse
    /\ queries = <<>>
    /\ events = <<>>
    /\ run = NoRun
    /\ \E in \in StakeholderInputs :
           view = [NoView EXCEPT !.value = in.value, !.list = in.list,
                                 !.encoding = in.encoding]

NextParse ==
    \/ RenderStakeholders
    \/ RenderAgain

SpecParse == InitParse /\ [][NextParse]_vars

(***************************************************************************)
(* The specification of the thread view: one ChannelThreads component,     *)
(* its user's clicks, and its requests settling in any order.              *)
(***************************************************************************)
NextView ==
    \/ \E known \in BOOLEAN : Mount(known)
    \/ \E found \in BOOLEAN : ChannelData(found)
    \/ \E f \in Filters : SetFilter(f)
    \/ Refresh
    \/ TryAgain
    \/ \E r \in view.inflight : \E ok \in BOOLEAN : FetchSettle(r, ok)

SpecView == Init /\ [][NextView]_vars

(***************************************************************************)
(* Properties of GetThreads.                                               *)
(***************************************************************************)
ThreadsOK == request.op = "threads" /\ response.status = StatusOK

Healthy == request.faults = {}

\* the catalog channels called name
Named(name) == {ch \in Range(catalog) : ch.channel_name = name}

SortedDesc(items) ==
    \A i \in 1..(Len(items) - 1) : items[i].latest_reply >= items[i + 1].latest_reply

\* C1: an unfiltered /threads response is ordered by latest_reply descending
\* across the whole response, not only within each channel's block.
C1_UnfilteredSortedDesc ==
    (ThreadsOK /\ request.channel = "" /\ request.priority = "")
        => SortedDesc(response.items)

\* C3: under a priority filter p every returned record has derived priority
\* p, and a row whose ai_priority is NULL is returned under no filter other
\* than "none".
C3_PriorityFilterExact ==
    (ThreadsOK /\ request.priority # "")
        => \A i \in 1..Len(response.items) :
               /\ response.items[i].priority = request.priority
               /\ (response.items[i].ai_priority = NULL => request.priority = "none")

\* a "high" request answered with a record while the queried tables also
\* hold a row of another priority and a row without one
C3_Witness ==
    /\ ThreadsOK /\ request.priority = "high" /\ request.channel = ""
    /\ Len(response.items) >= 1
    /\ \E ch \in Range(catalog) : \E i \in 1..Len(tables[ch.table_name]) :
           tables[ch.table_name][i].ai_priority \notin {"high"}
           /\ ScanOk(tables[ch.table_name][i])

\* C4: every record of a /threads response has a non-empty priority, equal
\* to ai_priority when that is not NULL and to "none" when it is.
C4_PriorityDerived ==
    ThreadsOK
        => \A i \in 1..Len(response.items) :
               LET t == response.items[i]
               IN  /\ t.priority # ""
                   /\ (t.ai_priority # NULL => t.priority = t.ai_priority)
                   /\ (t.ai_priority = NULL => t.priority = "none")

\* a response holding a record without ai_priority and one with it
C4_Witness ==
    /\ ThreadsOK
    /\ \E i \in 1..Len(response.items) : response.items[i].ai_priority = NULL
    /\ \E i \in 1..Len(response.items) : response.items[i].ai_priority # NULL

\* C8: for a catalog channel whose table exists and is empty,
\* /threads?channel=C answers 200 with the empty array (not null), whatever
\* the priority and limit.
C8_EmptyChannelEmptyArray ==
    (/\ request.op = "threads" /\ Healthy
     /\ Named(request.channel) # {}
     /\ \A ch \in Named(request.channel) :
            ch.table_name \in exists /\ tables[ch.table_name] = <<>>)
        => /\ response.status = StatusOK
           /\ response.kind = "array"
           /\ ~response.null
           /\ response.items = <<>>

\* such a request, with a priority filter, while another channel has rows
C8_Witness ==
    /\ request.op = "threads" /\ Healthy /\ request.priority # ""
    /\ Named(request.channel) # {}
    /\ \A ch \in Named(request.channel) :
           ch.table_name \in exists /\ tables[ch.table_name] = <<>>
    /\ \E ch \in Range(catalog) : tables[ch.table_name] # <<>>
    /\ response.status = StatusOK

\* the catalog channels a request with this channel parameter queries
Queried(channel) ==
    {ch \in Range(catalog) : channel = "" \/ ch.channel_name = channel}

\* the rows of a channel's table a priority parameter selects
MatchCount(ch, priority) ==
    Cardinality({i \in 1..Len(tables[ch.table_name]) :
        priority = "" \/ tables[ch.table_name][i].ai_priority = priority})

\* C2: a /threads 200 response holds at most as many records as the
\* effective limit (the parsed positive limit, else 10), though every
\* channel's table is capped at that limit on its own.
C2_AtMostLimit ==
    ThreadsOK => Len(response.items) <= ExpectedCap(request.limit)

\* the default applies and cuts the merge of two tables that are each below
\* the cap
C2_Witness ==
    /\ ThreadsOK /\ request.limit = <<>> /\ request.channel = ""
    /\ request.priority = ""
    /\ \A t \in TableNames : Len(tables[t]) < DefaultLimit
    /\ TotalRows > DefaultLimit
    /\ Len(response.items) = DefaultLimit

\* C9: an absent, non-numeric, zero or negative limit is replaced by 10 and
\* the request is answered 200; a positive limit is used as given, as the
\* cap of every table and as the cap of the response.
C9_LimitFallback ==
    (request.op = "threads" /\ Healthy)
        => /\ response.status = StatusOK
           /\ LET cap == ExpectedCap(request.limit)
                  perTable == [ch \in Queried(request.channel) |->
                                  Min(cap, MatchCount(ch, request.priority))]
              IN  Len(response.items)
                      = Min(cap, SumOver(Queried(request.channel), perTable))

\* a zero or malformed limit answered with the first 10 rows of a table
\* that holds more
C9_Witness ==
    /\ ThreadsOK
    /\ request.limit \in {<<"0">>, <<"-", "1">>, <<"1", "a">>}
    /\ request.channel = "docs" /\ request.priority = ""
    /\ Len(tables["docs_threads"]) > DefaultLimit
    /\ Len(response.items) = DefaultLimit

(***************************************************************************)
(* Properties of GetDashboardStats.                                        *)
(***************************************************************************)
CatalogTablesExist == \A ch \in Range(catalog) : ch.table_name \in exists

RowsOf(ch) == tables[ch.table_name]

\* C5: with no write in between and no erroring table or query, /stats
\* returns the sum over the catalog channels of the row counts, of the rows
\* with status 'open' and of the rows with ai_thread_name set, and the
\* number of catalog rows.
C5_StatsAreSums ==
    (request.op = "stats" /\ Healthy /\ CatalogTablesExist)
        => /\ response.status = StatusOK
           /\ response.kind = "object"
           /\ response.stats.totalThreads
                  = SumOver(Range(catalog), [ch \in Range(catalog) |-> Len(RowsOf(ch))])
           /\ response.stats.activeThreads
                  = SumOver(Range(catalog), [ch \in Range(catalog) |->
                        Cardinality({i \in 1..Len(RowsOf(ch)) :
                            RowsOf(ch)[i].status = "open"})])
           /\ response.stats.aiAnalyzed
                  = SumOver(Range(catalog), [ch \in Range(catalog) |->
                        Cardinality({i \in 1..Len(RowsOf(ch)) :
                            RowsOf(ch)[i].ai_thread_name # NULL})])
           /\ response.stats.channels = Cardinality(Range(catalog))

\* statistics over two channels with rows, some of them closed, some analyzed
C5_Witness ==
    /\ request.op = "stats" /\ Healthy /\ CatalogTablesExist
    /\ response.stats.channels = Cardinality(Channels)
    /\ \A ch \in Range(catalog) : RowsOf(ch) # <<>>
    /\ response.stats.activeThreads \in 1..(response.stats.totalThreads - 1)
    /\ response.stats.aiAnalyzed \in 1..(response.stats.totalThreads - 1)

\* the channels table cannot be read: no connection, or one of the
\* handler's queries on it fails
CatalogUnreadable ==
    \E f \in request.faults : f = ConnFault \/ f.at \in CatalogQueries \cup {"catalog"}

\* C10: when the catalog cannot be read, /stats and /threads fail with a
\* 5xx response carrying an error body, never 200 with zeroed or empty data.
C10_CatalogFailureIs5xx ==
    (request.op \in {"stats", "threads"} /\ CatalogUnreadable)
        => /\ response.status >= StatusInternalServerError
           /\ response.kind = "error"
           /\ response.error # ""

(***************************************************************************)
(* Properties of GetUserProfiles.                                          *)
(***************************************************************************)
\* s[i..j] lies between two separators (or the ends of s) and holds none
IsPiece(s, i, j) ==
    /\ \A k \in i..j : s[k] # ","
    /\ (i = 1 \/ s[i - 1] = ",")
    /\ (j = Len(s) \/ s[j + 1] = ",")

\* t without the blanks around it
Unpad(t) ==
    LET inked == {k \in 1..Len(t) : t[k] # " "}
    IN  IF inked = {} THEN <<>>
        ELSE SubSeq(t, CHOOSE a \in inked : \A k \in inked : a <= k,
                       CHOOSE b \in inked : \A k \in inked : b >= k)

\* the ids a user_ids parameter denotes (the empty text is no id)
IdSet(s) ==
    {Unpad(SubSeq(s, p[1], p[2])) :
        p \in {q \in (1..(Len(s) + 1)) \X (0..Len(s)) :
                  q[2] >= q[1] - 1 /\ IsPiece(s, q[1], q[2])}} \ {<<>>}

ProfilesAsked == request.op = "profiles" /\ Healthy /\ request.user_ids # <<>>

C7_EmptyIdsRejected ==
    (request.op = "profiles" /\ Healthy /\ IdSet(request.user_ids) = {})
        => /\ response.status \in StatusBadRequest..(StatusInternalServerError - 1)
           /\ response.kind = "error"
(***************************************************************************)
(* Failing per-channel queries.                                            *)
(***************************************************************************)
\* the connection and the catalog query of the request succeeded
Served == ConnFault \notin request.faults /\ Fault("catalog", "") \notin request.faults

ThreadIds(rows) == [i \in 1..Len(rows) |-> rows[i].thread_ts]

\* the records of the response attributed to the channel
RecordsOf(ch) == SelectSeq(response.items, LAMBDA r : r.channel_name = ch.channel_name)

\* C11: when the query on a channel's table fails while GET /threads is
\* served, that channel contributes no record, the other channels are still
\* read, and the response is 200 with exactly their records (rows within the
\* caps, no filter).
C11_FailedTableSkipped ==
    (request.op = "threads" /\ Served) =>
        /\ response.status = StatusOK
        /\ response.kind = "array"
        /\ \A ch \in Range(catalog) :
               IF QueryFails("threads", ch, request.faults)
               THEN RecordsOf(ch) = <<>>
               ELSE ThreadIds(RecordsOf(ch)) = ThreadIds(RowsOf(ch))

\* the first channel scanned has rows and its query fails; a later channel's
\* rows are in the response
C11_Witness ==
    /\ request.op = "threads"
    /\ Len(catalog) = 2
    /\ Fault("threads", catalog[1].table_name) \in request.faults
    /\ RowsOf(catalog[1]) # <<>>
    /\ RowsOf(catalog[2]) # <<>>
    /\ response.status = StatusOK
    /\ RecordsOf(catalog[2]) # <<>>
    /\ RecordsOf(catalog[1]) = <<>>

CountKinds == {"total", "active", "ai"}

\* one of the count statements on the channel's table fails in the request
Errs(ch) == \E kind \in CountKinds : QueryFails(kind, ch, request.faults)

\* the rows a counter sums when the erroring tables are left out of it
SumWithoutErring(kind) ==
    LET counted == {ch \in Range(catalog) : ~Errs(ch)}
    IN  SumOver(counted, [ch \in counted |-> CountQuery(kind, RowsOf(ch))])

\* C12: GET /stats always completes with 200 when the catalog can be read,
\* and a table with a failing count statement contributes zero to the three
\* counters together: it is never counted in one and left out of another.
C12_ErroringTableOmittedTogether ==
    (request.op = "stats" /\ ConnFault \notin request.faults /\ ~CatalogUnreadable) =>
        /\ response.status = StatusOK
        /\ response.stats.totalThreads = SumWithoutErring("total")
        /\ response.stats.activeThreads = SumWithoutErring("active")
        /\ response.stats.aiAnalyzed = SumWithoutErring("ai")

(***************************************************************************)
(* Properties of GetChannels.                                              *)
(***************************************************************************)
\* the channel ids in ascending order
ChannelIds == <<"C1", "C2", "C3">>

IdRank(id) == CHOOSE i \in 1..Len(ChannelIds) : ChannelIds[i] = id

\* a sorts before b by channel_name, then by channel_id
NameThenIdBefore(a, b) ==
    \/ NameRank(a.channel_name) < NameRank(b.channel_name)
    \/ /\ a.channel_name = b.channel_name
       /\ IdRank(a.channel_id) < IdRank(b.channel_id)

\* C13: GET /channels returns every catalog channel exactly once, ordered
\* by channel_name ascending, channels of equal name by channel_id ascending.
C13_ChannelsOrderedByNameThenId ==
    (request.op = "channels" /\ Healthy) =>
        /\ response.status = StatusOK
        /\ Len(response.items) = Len(catalog)
        /\ {r.channel_id : r \in Range(response.items)}
               = {ch.channel_id : ch \in Range(catalog)}
        /\ \A i, j \in 1..Len(response.items) :
               i < j => NameThenIdBefore(response.items[i], response.items[j])

(***************************************************************************)
(* Properties of the statements and of the store under the read API.       *)
(***************************************************************************)
\* the pieces of the text of the k-th statement of the request
Pieces(k) == Range(queries[k].text)

\* C14: the only value formatted into a statement's text is a table_name
\* that the catalog holds in the same request; everything else in the text
\* is a literal of the program or a placeholder number, and the priority
\* of a request reaches the store as the first bound argument.
C14_OnlyCatalogTableNamesInText ==
    /\ \A k \in 1..Len(queries) : \A piece \in Pieces(k) :
           /\ piece.from \in {"literal", "counter", "catalog"}
           /\ piece.from = "catalog" =>
                  \E ch \in Range(catalog) : ch.table_name = piece.sql
    /\ (request.op = "threads" /\ request.priority # "") =>
           \A k \in 2..Len(queries) :
               /\ queries[k].args # <<>>
               /\ queries[k].args[1] = request.priority
    /\ request.op = "profiles" =>
           \A k \in 1..Len(queries) : queries[k].args = BoundArgs(request.user_ids)

\* a filtered, capped request for one channel has sent a statement with the
\* channel's table name in its text and the priority and cap bound
C14_Witness ==
    /\ request.op = "threads"
    /\ request.priority = "high"
    /\ request.channel = "docs"
    /\ request.limit = <<"1">>
    /\ Len(queries) = 2
    /\ \E piece \in Pieces(2) : piece.from = "catalog" /\ piece.sql = "docs_threads"
    /\ Len(queries[2].args) = 2
    /\ response.items # <<>>

\* C15: no request changes the catalog, a per-channel table or
\* user_profiles: every step that serves or delivers a request leaves the
\* store as it was.
C15_RequestsLeaveStoreUnchanged == [][(~Idle \/ ~Idle') => UNCHANGED store]_vars

\* each handler is reached on a store that holds channels, rows and profiles
C15_Witness ==
    /\ request.op = "channels"
    /\ response.status = StatusOK
    /\ Len(catalog) = 2
    /\ NameRank(catalog[2].channel_name) < NameRank(catalog[1].channel_name)
    /\ TotalRows > 0
    /\ profiles # <<>>

(***************************************************************************)
(* Properties of the profile lookup's bound ids.                           *)
(***************************************************************************)
\* C16: the ids bound to the lookup in user_profiles are deduplicated: each
\* distinct trimmed id of the request is bound at most once.
C16_BoundIdsDistinct ==
    request.op = "profiles" =>
        \A k \in 1..Len(queries) : \A i, j \in 1..Len(queries[k].args) :
            (i # j /\ queries[k].args[i] # <<>>) =>
                queries[k].args[i] # queries[k].args[j]

(***************************************************************************)
(* More properties of GetThreads.                                          *)
(***************************************************************************)
\* C17: in the response of GET /threads, records of equal latest_reply from
\* different channels appear in ascending order of channel_name.
C17_TiesInChannelNameOrder ==
    (ThreadsOK /\ Healthy) =>
        \A i, j \in 1..Len(response.items) :
            (/\ i < j
             /\ response.items[i].latest_reply = response.items[j].latest_reply
             /\ response.items[i].channel_name # response.items[j].channel_name)
            => NameRank(response.items[i].channel_name)
                   < NameRank(response.items[j].channel_name)

\* C18: with a priority filter and the rows within the caps, every row of a
\* queried channel whose ai_priority equals the filter is returned,
\* whatever the nullness of its other nullable columns.
C18_MatchingRowReturned ==
    (ThreadsOK /\ Healthy /\ request.priority # "" /\ request.limit = <<>>) =>
        \A ch \in Queried(request.channel) : \A i \in 1..Len(RowsOf(ch)) :
            RowsOf(ch)[i].ai_priority = request.priority =>
                \E r \in Range(response.items) :
                    /\ r.channel_name = ch.channel_name
                    /\ r.thread_ts = RowsOf(ch)[i].thread_ts

\* C19: with a non-empty channel parameter only the catalog channel of that
\* name is queried: every record carries that channel_name, no statement
\* names the table of another channel, and a name that matches no channel
\* gives 200 with an empty array.
C19_ChannelFilterExact ==
    (request.op = "threads" /\ Healthy /\ request.channel # "") =>
        /\ response.status = StatusOK
        /\ response.kind = "array"
        /\ ~response.null
        /\ \A r \in Range(response.items) : r.channel_name = request.channel
        /\ Len(queries) = 1 + Cardinality(Named(request.channel))
        /\ \A k \in 2..Len(queries) : \A piece \in Pieces(k) :
               piece.from = "catalog" =>
                   \E ch \in Named(request.channel) : ch.table_name = piece.sql
        /\ Named(request.channel) = {} => response.items = <<>>

\* both channels hold rows that decode; the request for docs has queried the
\* table of docs alone and returned its records
C19_Witness ==
    /\ request.op = "threads"
    /\ request.channel = "docs"
    /\ request.priority = ""
    /\ Len(catalog) = 2
    /\ catalog[1].channel_name = "eng"
    /\ \A ch \in Range(catalog) : \E i \in 1..Len(RowsOf(ch)) : ScanOk(RowsOf(ch)[i])
    /\ Len(queries) = 2
    /\ response.items # <<>>

(***************************************************************************)
(* The body of a successful listing.                                       *)
(***************************************************************************)
\* C20: every 200 response of GET /threads, GET /channels and
\* GET /user-profiles has a JSON array as its body, [] and never null, also
\* when it holds no record.
C20_ArrayNeverNull ==
    (request.op \in {"threads", "channels", "profiles"} /\ response.status = StatusOK) =>
        response.kind = "array" /\ ~response.null

(***************************************************************************)
(* Rows that fail to decode.                                               *)
(***************************************************************************)
\* the rows the statement on the channel's table returns for the request
\* when no cap cuts them
Returned(ch) == OrderByLatestReplyDesc(Where(RowsOf(ch), request.priority))

\* C21: in the scan of a channel's table for GET /threads a row that fails
\* to decode is skipped and the scan goes on: every decodable row the
\* table's statement returns is in the response (rows within the caps), and
\* the response is 200.
C21_UndecodableRowSkipped ==
    (request.op = "threads" /\ Healthy /\ request.limit = <<>>) =>
        /\ response.status = StatusOK
        /\ \A ch \in Queried(request.channel) :
               ThreadIds(RecordsOf(ch)) = ThreadIds(SelectSeq(Returned(ch), ScanOk))

\* the statement on a table returns a row that fails to decode before one
\* that decodes, and the latter is in the response
C21_Witness ==
    /\ request.op = "threads"
    /\ request.limit = <<>>
    /\ response.status = StatusOK
    /\ \E ch \in Queried(request.channel) :
           /\ Len(Returned(ch)) = 2
           /\ ~ScanOk(Returned(ch)[1])
           /\ ScanOk(Returned(ch)[2])
           /\ ThreadIds(RecordsOf(ch)) = <<Returned(ch)[2].thread_ts>>

(***************************************************************************)
(* Resources.                                                              *)
(***************************************************************************)
\* the resources opened and not closed by a sequence of events
RECURSIVE HeldAfter(_)
HeldAfter(evs) ==
    IF evs = <<>> THEN {}
    ELSE LET before == HeldAfter(SubSeq(evs, 1, Len(evs) - 1))
             last == evs[Len(evs)]
         IN  IF last.ev = "open" THEN before \cup {last.res} ELSE before \ {last.res}

\* C22: when a handler has returned, on whatever exit path, the connection
\* and every cursor it opened have been closed; in particular a connection
\* whose ping failed.
C22_AllReleasedOnReturn ==
    ~Idle => (response.status # 0 /\ HeldAfter(events) = {})

\* GetThreads has returned after a failing statement on one channel's table
\* and a row of another that failed to decode, having opened the
\* connection, the catalog cursor and one thread cursor
C22_Witness ==
    /\ request.op = "threads"
    /\ request.channel = ""
    /\ request.priority = ""
    /\ response.status = StatusOK
    /\ \E ch \in Range(catalog) : ch.table_name \notin exists
    /\ \E ch \in Range(catalog) : \E i \in 1..Len(RowsOf(ch)) : ~ScanOk(RowsOf(ch)[i])
    /\ {e.res : e \in Range(events)} \ {"db", "channelRows"} # {}
    /\ Len(events) = 6

(***************************************************************************)
(* Properties of an invocation observed statement by statement.            *)
(***************************************************************************)
\* C23: an invocation of GetThreads or GetDashboardStats always eventually
\* responds, also when a statement on one channel's table never completes:
\* the table is abandoned and the other channels' results are returned.
C23_AlwaysResponds == (run.phase # "idle") ~> (run.phase = "idle")

\* C26: every response of GET /stats has activeThreads <= totalThreads and
\* aiAnalyzed <= totalThreads, and channels equal to the number of tables
\* whose counts were summed, whatever the writers do between the
\* statements of the invocation.
C26_StatsConsistent ==
    [][(run.op = "stats" /\ response'.kind = "object") =>
          /\ response'.stats.activeThreads <= response'.stats.totalThreads
          /\ response'.stats.aiAnalyzed <= response'.stats.totalThreads
          /\ response'.stats.channels = run.summed]_vars

(***************************************************************************)
(* The ranking across channels and the caps.                               *)
(***************************************************************************)
\* every row of every catalog table decodes and no table is missing
AllDecodable ==
    /\ CatalogTablesExist
    /\ \A ch \in Range(catalog) : \A i \in 1..Len(RowsOf(ch)) : ScanOk(RowsOf(ch)[i])

\* the row of the channel's table is in the response
InResponse(ch, row) ==
    \E r \in Range(response.items) :
        r.channel_name = ch.channel_name /\ r.thread_ts = row.thread_ts

CatalogRows == SumOver(Range(catalog), [ch \in Range(catalog) |-> Len(RowsOf(ch))])

\* C27: with all rows decodable and no table erroring, an unfiltered
\* GET /threads with limit n returns the n records of greatest latest_reply
\* over all catalog tables (all of them when fewer exist): no record is
\* returned while a strictly more recent one is left out.
C27_TopNAcrossChannels ==
    (ThreadsOK /\ Healthy /\ request.channel = "" /\ request.priority = ""
        /\ AllDecodable) =>
        /\ Len(response.items) = Min(ParseLimit(request.limit), CatalogRows)
        /\ \A ch \in Range(catalog) : \A i \in 1..Len(RowsOf(ch)) :
               ~InResponse(ch, RowsOf(ch)[i]) =>
                   \A r \in Range(response.items) :
                       r.latest_reply >= RowsOf(ch)[i].latest_reply

LatestReplies(rows) == [i \in 1..Len(rows) |-> rows[i].latest_reply]

\* C28: GET /threads for a single channel with limit n returns min(n, d)
\* records, d being the number of decodable rows of its table that match
\* the priority filter, and they are the most recent decodable ones: rows
\* that fail to decode use up no slot of the per-table cap.
C28_SingleChannelMinOfCapAndDecodable ==
    (ThreadsOK /\ Healthy /\ request.channel # "") =>
        \A ch \in Named(request.channel) :
            ch.table_name \in exists =>
                LET decodable == SelectSeq(Returned(ch), ScanOk)
                    n == ParseLimit(request.limit)
                IN  /\ Len(response.items) = Min(n, Len(decodable))
                    /\ LatestReplies(response.items) = LatestReplies(Take(decodable, n))

(***************************************************************************)
(* Attribution of a record to its channel.                                 *)
(***************************************************************************)
\* C29: every record of GET /threads carries the channel_id of the catalog
\* entry whose channel_name it carries and whose table it was read from; a
\* row stored under another channel_id is not returned under that name.
C29_RecordAttributedToItsChannel ==
    ThreadsOK =>
        \A r \in Range(response.items) :
            \E ch \in Range(catalog) :
                ch.channel_name = r.channel_name /\ ch.channel_id = r.channel_id

(***************************************************************************)
(* Properties of parseStakeholders.                                        *)
(***************************************************************************)
\* every element is a string that starts with the id prefix
AllIds(elems) ==
    \A i \in 1..Len(elems) : elems[i].t = "string" /\ StartsWithU(elems[i].s)

\* C24: parseStakeholders never throws, whatever it is given; for a string
\* it returns only strings starting with 'U', and the empty sequence when
\* the string holds no such id.
C24_ParseStakeholdersTotal ==
    /\ view.parsed.done =>
           /\ ~view.parsed.threw
           /\ view.value.t = "string" =>
                  /\ AllIds(view.parsed.val)
                  /\ (\A i \in 1..Len(view.value.s) : view.value.s[i] # "U") =>
                         view.parsed.val = <<>>
    /\ view.reparsed.done => ~view.reparsed.threw

\* a JSON array that holds an id and a number has been parsed: the callback
\* of the filter failed on the number and the fallback gave no id
C24_Witness ==
    /\ view.parsed.done
    /\ view.value.t = "string"
    /\ JSONParse(view.value.s).ok
    /\ JSONParse(view.value.s).val.t = "array"
    /\ \E i \in 1..Len(JSONParse(view.value.s).val.a) :
           KeepsParsed(JSONParse(view.value.s).val.a[i])
    /\ \E i \in 1..Len(JSONParse(view.value.s).val.a) :
           CallbackThrows(JSONParse(view.value.s).val.a[i])
    /\ view.parsed.val = <<>>

\* the characters of each returned string
CharsOf(elems) == [i \in 1..Len(elems) |-> elems[i].s]

\* C25: for a list of ids that start with 'U' and hold no comma, blank or
\* quote, the JSON array encoding and the ", " joined encoding both parse to
\* the list itself, and parsing the result again returns it unchanged.
C25_EncodingsAgree ==
    /\ (view.parsed.done /\ view.encoding \in {"json", "delimited"}) =>
           /\ ~view.parsed.threw
           /\ AllIds(view.parsed.val)
           /\ CharsOf(view.parsed.val) = view.list
    /\ view.reparsed.done => view.reparsed = view.parsed

\* a list of two ids in the delimited encoding, parsed and parsed again
C25_Witness ==
    /\ view.encoding = "delimited"
    /\ Len(view.list) = 2
    /\ view.list[1] # view.list[2]
    /\ view.reparsed.done
    /\ CharsOf(view.reparsed.val) = view.list

(***************************************************************************)
(* Properties of the ChannelThreads view.                                  *)
(***************************************************************************)
\* C30: once every /api/threads request of the view has settled, loading is
\* false and the threads on display are the response of the last request,
\* issued for the selected filter (or the error card is shown instead); a
\* response of an earlier filter never replaces that of a later one.
C30_SettledViewShowsSelectedFilter ==
    (view.mounted /\ view.inflight = {}) =>
        /\ ~view.loading
        /\ ~view.error => /\ view.shown.filter = view.filter
                          /\ view.shown.id = view.issued

\* the filter was changed after an earlier response was on display, and the
\* request for the new filter has settled
C30_Witness ==
    /\ view.mounted
    /\ view.inflight = {}
    /\ ~view.error
    /\ view.issued >= 2
    /\ view.filter = "high"
    /\ view.shown.filter = "high"

====
